---------------------------- MODULE Spec2Model ----------------------------
(***************************************************************************)
(* Model of the HIDL module-resolution core (Coordinator.cpp):             *)
(* Coordinator::parse, findPackageRoot, getPackagePath, lookupType and      *)
(* forEachAST.                                                             *)
(* Strings are sequences of one-character strings, so that find, substr    *)
(* and append are computed as std::string computes them.                   *)
(***************************************************************************)
EXTENDS Integers, Sequences, FiniteSets, TLC

VARIABLES
    mPackageRoots,      \* Coordinator::mPackageRoots (package prefixes)
    mPackageRootPaths,  \* Coordinator::mPackageRootPaths (filesystem roots)
    mCache,             \* Coordinator::mCache, KeyedVector<FQName, AST *>
    stack,              \* call stack of Coordinator::parse activations
    heap,               \* AST objects allocated with new and not deleted
    parseLog,           \* per FQName, the paths handed to parseFile so far
    ret,                \* the value the last finished call returned
    returned,           \* per FQName, the AST objects parse has returned
    aborted,            \* the process died (failed CHECK / uncaught exception)
    pathQuery,          \* last getPackagePath call: its input and its result
    walk,               \* the activation of forEachAST and what it has done
    hist                \* history of the cache: insertions, back-edges seen

vars == <<mPackageRoots, mPackageRootPaths, mCache, stack, heap, parseLog,
          ret, returned, aborted, pathQuery, walk, hist>>

-----------------------------------------------------------------------------
(* Bounds of the model *)

\* imports a single file may declare (calls of parse made from parseFile)
MaxImports == 1

\* cap on parseFile invocations recorded per identifier
MaxParses == 2

-----------------------------------------------------------------------------
(* std::string *)

npos == -1

Min(a, b) == IF a < b THEN a ELSE b

\* s.substr(pos, n) for pos <= s.length()
substr(s, pos, n) == SubSeq(s, pos + 1, Min(pos + n, Len(s)))

\* s.substr(pos) for pos <= s.length()
substrFrom(s, pos) == SubSeq(s, pos + 1, Len(s))

\* s.find(t, from): the least position >= from at which t occurs, or npos
find(s, t, from) ==
    LET hits == { p \in from .. (Len(s) - Len(t)) :
                      SubSeq(s, p + 1, p + Len(t)) = t }
    IN  IF hits = {} THEN npos
        ELSE CHOOSE p \in hits : \A q \in hits : p <= q

\* the string literals of the source
Dot      == <<".">>
Slash    == <<"/">>
At       == <<"@">>
HalExt   == <<".", "h", "a", "l">>
TypesStr == <<"t", "y", "p", "e", "s">>


-----------------------------------------------------------------------------
(* FQName: package, version and local name, each a string *)

FQName(package, version, name) ==
    [package |-> package, version |-> version, name |-> name]

\* FQName::string(): package + version + "::" + name
FQNameString(fq) == fq.package \o fq.version \o <<":", ":">> \o fq.name

\* the characters of the model, in the order of their character codes
Alphabet == <<".", "/", "0", "1", "2", ":", "@", "E", "F", "I", "a", "b",
              "d", "e", "f", "g", "h", "l", "n", "o", "p", "r", "s", "t",
              "x", "y">>

CharCode(c) == CHOOSE i \in 1 .. Len(Alphabet) : Alphabet[i] = c

\* std::string operator<: lexicographic order on the character codes
RECURSIVE StringLess(_, _)
StringLess(s, t) ==
    IF t = <<>> THEN FALSE
    ELSE IF s = <<>> THEN TRUE
    ELSE IF Head(s) = Head(t) THEN StringLess(Tail(s), Tail(t))
    ELSE CharCode(Head(s)) < CharCode(Head(t))

\* FQName::operator<, the order of the keys of mCache
FQNameLess(a, b) == StringLess(FQNameString(a), FQNameString(b))

-----------------------------------------------------------------------------
(* The identifiers, files and registries of the model *)

Pkg1 == <<"a", ".", "n", "f">>
Pkg2 == <<"a", ".", "g", "p">>
Ver1 == <<"@", "1", ".", "0">>
Ver2 == <<"@", "2", ".", "0">>
IFoo == <<"I", "F", "o", "o">>
IBar == <<"I", "b", "a", "r">>
IFooE == <<"I", "F", "o", "o", ".", "E">>

Packages == {Pkg1, Pkg2}
LocalNames == {TypesStr, IFoo, IFooE}

\* the fully-qualified names clients, files and the parser refer to
FQNames ==
    { FQName(Pkg1, Ver1, n) : n \in LocalNames } \cup {FQName(Pkg2, Ver1, TypesStr)}

\* the names lookupType is asked for
LookupNames == { FQName(Pkg1, Ver1, n) : n \in {IFoo, IFooE} }

\* what a file can declare: its package and version, the interface it
\* declares (<<>> when it declares only types) and the names its internal
\* symbol table knows
FileContents ==
    { c \in [package : Packages, version : {Ver1, Ver2},
             iface : {<<>>, IFoo, IBar}, types : {{}, {IFooE}}] :
        c.package = Pkg1 \/ c.version = Ver1 }

-----------------------------------------------------------------------------
(* AST objects.  An AST is identified by its allocation: the FQName it was   *)
(* allocated for and the number of that allocation.                         *)

NoName == FQName(<<>>, <<>>, <<>>)

NULL == [key |-> NoName, serial |-> 0, package |-> <<>>, version |-> <<>>,
         iface |-> <<>>, types |-> {}]

\* new AST(this) for the serial-th parse of fq, before parseFile fills it
NewAST(fq, serial) ==
    [key |-> fq, serial |-> serial, package |-> <<>>, version |-> <<>>,
     iface |-> <<>>, types |-> {}]

\* the AST after parseFile has filled it from a file declaring c
FilledAST(ast, c) ==
    [ast EXCEPT !.package = c.package, !.version = c.version,
                !.iface = c.iface, !.types = c.types]

\* AST::isInterface(&ifaceName)
isInterface(ast) == ast.iface # <<>>

\* Type objects: a type is owned by an AST and named inside it
NoType == [owner |-> NoName, serial |-> 0, name |-> <<>>]

\* AST::lookupTypeInternal(name)
lookupTypeInternal(ast, name) ==
    IF name \in ast.types
    THEN [owner |-> ast.key, serial |-> ast.serial, name |-> name]
    ELSE NoType

-----------------------------------------------------------------------------
(* KeyedVector<FQName, AST *>: a vector of (key, value) sorted by key *)

\* KeyedVector::indexOfKey: the 0-based index of the key, or -1
indexOfKey(cache, k) ==
    IF \E i \in 1 .. Len(cache) : cache[i].key = k
    THEN (CHOOSE i \in 1 .. Len(cache) : cache[i].key = k) - 1
    ELSE -1

\* KeyedVector::valueAt
valueAt(cache, index) == cache[index + 1].value

\* a variant of KeyedVectorAdd, below, that inserts a pair even when the key
\* is already there
KeyedVectorAddInsertOnly(cache, k, v) ==
    LET n == Cardinality({ i \in 1 .. Len(cache) : FQNameLess(cache[i].key, k) })
    IN  SubSeq(cache, 1, n) \o <<[key |-> k, value |-> v]>>
            \o SubSeq(cache, n + 1, Len(cache))

\* KeyedVector::add: replaces the value of a key already there, otherwise
\* inserts the pair at the key's place in the order
KeyedVectorAdd(cache, k, v) ==
    IF indexOfKey(cache, k) >= 0
    THEN [cache EXCEPT ![indexOfKey(cache, k) + 1].value = v]
    ELSE LET n == Cardinality({ i \in 1 .. Len(cache) :
                                   FQNameLess(cache[i].key, k) })
         IN  SubSeq(cache, 1, n) \o <<[key |-> k, value |-> v]>>
                 \o SubSeq(cache, n + 1, Len(cache))

-----------------------------------------------------------------------------
(* Coordinator::findPackageRoot and Coordinator::getPackagePath *)

\* a loop that keeps searching after a hit: the last matching prefix wins
findPackageRootLoopLast(roots, fq) ==
    LET hits == { i \in 1 .. Len(roots) : find(fq.package, roots[i], 0) # npos }
    IN  IF hits = {} THEN Len(roots)
        ELSE (CHOOSE i \in hits : \A j \in hits : j <= i) - 1

\* the loop of findPackageRoot: the 0-based position of the first prefix
\* that occurs in the package, or Len(roots) (the end iterator)
findPackageRootLoop(roots, fq) ==
    LET hits == { i \in 1 .. Len(roots) : find(fq.package, roots[i], 0) # npos }
    IN  IF hits = {} THEN Len(roots)
        ELSE (CHOOSE i \in hits : \A j \in hits : i <= j) - 1

\* findPackageRoot: the CHECKs abort the process
findPackageRoot(roots, fq) ==
    LET it == findPackageRootLoop(roots, fq)
    IN  IF fq.package = <<>> \/ fq.version = <<>> \/ it = Len(roots)
        THEN [abort |-> TRUE, it |-> it]
        ELSE [abort |-> FALSE, it |-> it]

\* "Make sure the prefix ends on a '.'"
NormalizePrefix(prefix) ==
    IF prefix[Len(prefix)] # "." THEN prefix \o Dot ELSE prefix

\* "... and the root path on a '/'"
NormalizeRoot(root) ==
    IF root[Len(root)] # "/" THEN root \o Slash ELSE root

\* the while loop of getPackagePath: every segment of the suffix that is
\* followed by a dot becomes a directory; yields the final startPos and path
RECURSIVE SegmentLoop(_, _, _)
SegmentLoop(packageSuffix, startPos, packagePath) ==
    LET dotPos == find(packageSuffix, Dot, startPos)
    IN  IF dotPos # npos
        THEN SegmentLoop(packageSuffix, dotPos + 1,
                 packagePath \o substr(packageSuffix, startPos, dotPos - startPos)
                             \o Slash)
        ELSE [startPos |-> startPos, packagePath |-> packagePath]

\* the length of the prefix that getPackagePath strips from the package
StripLength(prefix) == Len(prefix)

\* getPackagePath(fqName, relative): [abort, path]
getPackagePath(roots, rootPaths, fq, relative) ==
    LET found == findPackageRoot(roots, fq)
        prefix == NormalizePrefix(roots[found.it + 1])
        root == NormalizeRoot(rootPaths[found.it + 1])
        packageSuffix == substrFrom(fq.package, StripLength(prefix))
        loop == SegmentLoop(packageSuffix, 0, IF relative THEN <<>> ELSE root)
    IN  IF found.abort THEN [abort |-> TRUE, path |-> <<>>]
        \* substr throws std::out_of_range when pos > size(): nothing catches it
        ELSE IF StripLength(prefix) > Len(fq.package)
        THEN [abort |-> TRUE, path |-> <<>>]
        \* CHECK_LT(startPos + 1, packageSuffix.length())
        ELSE IF ~(loop.startPos + 1 < Len(packageSuffix))
        THEN [abort |-> TRUE, path |-> <<>>]
        \* CHECK_EQ(fqName.version().find('@'), 0u)
        ELSE IF find(fq.version, At, 0) # 0
        THEN [abort |-> TRUE, path |-> <<>>]
        ELSE [abort |-> FALSE,
              path |-> loop.packagePath
                         \o substrFrom(packageSuffix, loop.startPos) \o Slash
                         \o substrFrom(fq.version, 1) \o Slash]

\* the file name parse appends to the package path
FileName(fq) == fq.name \o HalExt

\* the path parse hands to parseFile: getPackagePath, then name and ".hal"
FilePath(roots, rootPaths, fq) ==
    LET dir == getPackagePath(roots, rootPaths, fq, FALSE)
    IN  [abort |-> dir.abort,
         path |-> IF dir.abort THEN <<>> ELSE dir.path \o FileName(fq)]

-----------------------------------------------------------------------------
(* Coordinator::parse *)

\* a variant of Frame, below, that starts every activation at the path
FrameWithoutTypes(fq) ==
    [fqName |-> fq, pc |-> "path", ast |-> NULL, imports |-> 0]

\* an activation of parse(fqName): pc is the place it has reached,
\*   "types"    before the implicit import of types.hal (line 39),
\*   "path"     before getPackagePath and parseFile (lines 47-53),
\*   "parsing"  inside parseFile, which may call parse for imports,
\*   "validate" parseFile returned OK, before the checks of lines 64-107
Frame(fq) ==
    [fqName |-> fq, pc |-> IF fq.name # TypesStr THEN "types" ELSE "path",
     ast |-> NULL, imports |-> 0]

Top == stack[Len(stack)]

SetTop(f) == [stack EXCEPT ![Len(stack)] = f]

Pop == SubSeq(stack, 1, Len(stack) - 1)

OnStack(fq) == \E i \in 1 .. Len(stack) : stack[i].fqName = fq

Obj(ast) == [key |-> ast.key, serial |-> ast.serial]

NoRet == [op |-> "none", fqName |-> NoName, ast |-> NULL, err |-> "none"]

ParseRet(fq, ast, err) ==
    [op |-> "parse", fqName |-> fq, ast |-> ast, err |-> err]

\* the record of the ASTs parse(fq) has returned, after it returns ast
Returning(fq, ast) ==
    IF ast = NULL THEN returned
    ELSE [returned EXCEPT ![fq] = @ \cup {Obj(ast)}]

\* a variant of CacheHit that takes a NULL entry for a miss
CacheHitIfResolved(cache, fq) ==
    /\ indexOfKey(cache, fq) >= 0
    /\ valueAt(cache, indexOfKey(cache, fq)) # NULL

\* lines 29-30: the identifier has an entry in the cache
CacheHit(cache, fq) == indexOfKey(cache, fq) >= 0

\* a variant of AddPlaceholder that leaves the cache as it is
AddPlaceholderSkipped(cache, fq) == cache

\* line 37: "Add this to the cache immediately"
AddPlaceholder(cache, fq) == KeyedVectorAdd(cache, fq, NULL)

\* a variant of StoreResult that leaves the placeholder in the cache
StoreResultDropped(cache, fq, ast) == cache

\* line 105: the validated AST replaces the placeholder
StoreResult(cache, fq, ast) == KeyedVectorAdd(cache, fq, ast)

\* a variant of DeleteAST that leaves the AST allocated
DeleteASTForgotten(h, ast) == h

\* lines 58, 99: delete ast
DeleteAST(h, ast) == h \ {Obj(ast)}

\* no forEachAST call is running and none has returned since the last parse
NoWalk == [pc |-> "idle", i |-> 0, visited |-> <<>>, errs |-> <<>>,
           result |-> "none"]

\* history of the cache; a specification keeps the part it reads:
\*   inserted  (kept when hist.order) the identifiers in the order line 37
\*             inserted their entries,
\*   observed  (kept when hist.cycles) the running activations a request
\*             has found in progress: it hit the NULL entry of an
\*             identifier on the stack,
\*   cycled    (kept when hist.cycles) the identifier of the activation
\*             that returned last, if it had been observed in progress, and
\*             NoName otherwise
HistoryOff ==
    [order |-> FALSE, cycles |-> FALSE,
     inserted |-> <<>>, observed |-> {}, cycled |-> NoName]

HistoryOfOrder == [HistoryOff EXCEPT !.order = TRUE]

HistoryOfCycles == [HistoryOff EXCEPT !.cycles = TRUE]

\* the history after line 37 has inserted the entry of fq
RecordInsert(h, fq) ==
    IF h.order THEN [h EXCEPT !.inserted = Append(@, fq)] ELSE h

\* the history after a request for fq has hit the cache (lines 29-34), made
\* by a caller whose stack is callerStack
RecordHit(h, fq, callerStack) ==
    IF /\ h.cycles
       /\ valueAt(mCache, indexOfKey(mCache, fq)) = NULL
       /\ \E i \in 1 .. Len(callerStack) : callerStack[i].fqName = fq
    THEN [h EXCEPT !.observed = @ \cup {fq}]
    ELSE h

\* the history after the activation of parse(fq) has returned
RecordReturn(h, fq) ==
    IF h.cycles
    THEN [h EXCEPT !.observed = @ \ {fq},
                   !.cycled = IF fq \in h.observed THEN fq ELSE NoName]
    ELSE h

\* lines 29-37, for a call parse(fq) made by a caller whose stack (with its
\* own continuation already set) is callerStack: a hit returns the cached
\* value at once, a miss adds the placeholder and starts the activation
parseEntry(fq, callerStack) ==
    IF CacheHit(mCache, fq)
    THEN /\ ret' = ParseRet(fq, valueAt(mCache, indexOfKey(mCache, fq)), "cached")
         /\ returned' = Returning(fq, valueAt(mCache, indexOfKey(mCache, fq)))
         /\ stack' = callerStack
         /\ mCache' = mCache
         /\ hist' = RecordHit(hist, fq, callerStack)
    ELSE /\ mCache' = AddPlaceholder(mCache, fq)
         /\ stack' = Append(callerStack, Frame(fq))
         /\ hist' = RecordInsert(hist, fq)
         /\ UNCHANGED <<ret, returned>>

\* a client calls parse(fq)
Resolve(fq) ==
    /\ ~aborted
    /\ stack = <<>>
    /\ walk.pc # "loop"
    /\ parseEntry(fq, stack)
    /\ walk' = NoWalk
    /\ UNCHANGED <<mPackageRoots, mPackageRootPaths, heap, parseLog, aborted,
                   pathQuery>>

\* lines 39-45: (void)parse(typesName), the result is ignored
ImportTypes ==
    /\ ~aborted
    /\ stack # <<>>
    /\ Top.pc = "types"
    /\ parseEntry(FQName(Top.fqName.package, Top.fqName.version, TypesStr),
                  SetTop([Top EXCEPT !.pc = "path"]))
    /\ UNCHANGED walk
    /\ UNCHANGED <<mPackageRoots, mPackageRootPaths, heap, parseLog, aborted,
                   pathQuery>>

\* lines 47-53: the path, new AST(this), and the call of parseFile
CallParseFile ==
    /\ ~aborted
    /\ stack # <<>>
    /\ Top.pc = "path"
    /\ Len(parseLog[Top.fqName]) < MaxParses
    /\ LET fq == Top.fqName
           fp == FilePath(mPackageRoots, mPackageRootPaths, fq)
           ast == NewAST(fq, Len(parseLog[fq]) + 1)
       IN  IF fp.abort
           THEN /\ aborted' = TRUE
                /\ UNCHANGED <<stack, heap, parseLog>>
           ELSE /\ parseLog' = [parseLog EXCEPT ![fq] = Append(@, fp.path)]
                /\ heap' = heap \cup {Obj(ast)}
                /\ stack' = SetTop([Top EXCEPT !.pc = "parsing", !.ast = ast])
                /\ aborted' = aborted
    /\ UNCHANGED <<walk, hist>>
    /\ UNCHANGED <<mPackageRoots, mPackageRootPaths, mCache, ret, returned,
                   pathQuery>>

\* parseFile meets an import statement and calls parse for it
ParserImport(fq) ==
    /\ ~aborted
    /\ stack # <<>>
    /\ Top.pc = "parsing"
    /\ Top.imports < MaxImports
    /\ parseEntry(fq, SetTop([Top EXCEPT !.imports = @ + 1]))
    /\ UNCHANGED walk
    /\ UNCHANGED <<mPackageRoots, mPackageRootPaths, heap, parseLog, aborted,
                   pathQuery>>

\* lines 53-62: parseFile returns an error; the AST is deleted, NULL returned
ParseFileFails ==
    /\ ~aborted
    /\ stack # <<>>
    /\ Top.pc = "parsing"
    /\ heap' = DeleteAST(heap, Top.ast)
    /\ ret' = ParseRet(Top.fqName, NULL, "ParseFailure")
    /\ stack' = Pop
    /\ hist' = RecordReturn(hist, Top.fqName)
    /\ UNCHANGED walk
    /\ UNCHANGED <<mPackageRoots, mPackageRootPaths, mCache, parseLog, returned,
                   aborted, pathQuery>>

\* line 53: parseFile returns OK, having filled the AST from the file
ParseFileOK(c) ==
    /\ ~aborted
    /\ stack # <<>>
    /\ Top.pc = "parsing"
    /\ stack' = SetTop([Top EXCEPT !.pc = "validate", !.ast = FilledAST(@, c)])
    /\ UNCHANGED <<walk, hist>>
    /\ UNCHANGED <<mPackageRoots, mPackageRootPaths, mCache, heap, parseLog,
                   ret, returned, aborted, pathQuery>>

\* a variant of Validate without the final branch (lines 89-95)
ValidateNoExpectedInterface(ast, fq) ==
    IF ast.package # fq.package \/ ast.version # fq.version
    THEN "PackageMismatch"
    ELSE IF isInterface(ast)
    THEN IF fq.name = TypesStr THEN "UnexpectedInterface"
         ELSE IF ast.iface # fq.name THEN "InterfaceNameMismatch"
         ELSE "OK"
    ELSE "OK"

\* a variant of Validate, below, without the package and version check
\* (lines 66-74)
ValidateNoPackageCheck(ast, fq) ==
    IF isInterface(ast)
    THEN IF fq.name = TypesStr THEN "UnexpectedInterface"
         ELSE IF ast.iface # fq.name THEN "InterfaceNameMismatch"
         ELSE "OK"
    ELSE IF fq.name # TypesStr THEN "ExpectedInterface"
    ELSE "OK"

\* lines 64-96: the checks on the parsed AST; the result names the
\* LOG(ERROR) branch taken, "OK" when err stays OK
Validate(ast, fq) ==
    IF ast.package # fq.package \/ ast.version # fq.version
    THEN "PackageMismatch"
    ELSE IF isInterface(ast)
    THEN IF fq.name = TypesStr THEN "UnexpectedInterface"
         ELSE IF ast.iface # fq.name THEN "InterfaceNameMismatch"
         ELSE "OK"
    ELSE IF fq.name # TypesStr THEN "ExpectedInterface"
    ELSE "OK"

\* lines 64-107: validation, then delete and NULL, or the cache and the AST
ValidateAndReturn ==
    /\ ~aborted
    /\ stack # <<>>
    /\ Top.pc = "validate"
    /\ LET err == Validate(Top.ast, Top.fqName)
       IN  IF err # "OK"
           THEN /\ heap' = DeleteAST(heap, Top.ast)
                /\ ret' = ParseRet(Top.fqName, NULL, err)
                /\ UNCHANGED <<mCache, returned>>
           ELSE /\ mCache' = StoreResult(mCache, Top.fqName, Top.ast)
                /\ ret' = ParseRet(Top.fqName, Top.ast, "OK")
                /\ returned' = Returning(Top.fqName, Top.ast)
                /\ heap' = heap
    /\ stack' = Pop
    /\ hist' = RecordReturn(hist, Top.fqName)
    /\ UNCHANGED walk
    /\ UNCHANGED <<mPackageRoots, mPackageRootPaths, parseLog, aborted,
                   pathQuery>>

-----------------------------------------------------------------------------
(* Coordinator::lookupType *)

\* lines 189-195: the part of the local name before the first dot
TopType(name) ==
    IF find(name, Dot, 0) = npos THEN name ELSE substr(name, 0, find(name, Dot, 0))

\* lines 197-226: [abort, type, cache]; type is NoType for the NULL result,
\* cache is mCache after the call (the method is const and only reads it)
lookupType(cache, fq) ==
    LET ifaceName == FQName(fq.package, fq.version, TopType(fq.name))
        typesName == FQName(fq.package, fq.version, TypesStr)
        index == indexOfKey(cache, ifaceName)
        ifaceAst == valueAt(cache, index)
        ifaceType == lookupTypeInternal(ifaceAst, fq.name)
        tindex == indexOfKey(cache, typesName)
        typesAst == valueAt(cache, tindex)
        typesType == IF tindex >= 0 /\ typesAst # NULL
                     THEN lookupTypeInternal(typesAst, fq.name)
                     ELSE NoType
    IN  \* CHECK(ast != NULL)
        IF index >= 0 /\ ifaceAst = NULL
        THEN [abort |-> TRUE, type |-> NoType, cache |-> cache]
        ELSE IF index >= 0 /\ ifaceType # NoType
        THEN [abort |-> FALSE, type |-> ifaceType, cache |-> cache]
        ELSE [abort |-> FALSE, type |-> typesType, cache |-> cache]

\* a client, or the parser, calls lookupType(fq)
LookupType(fq) ==
    /\ ~aborted
    /\ LET r == lookupType(mCache, fq)
       IN  /\ aborted' = r.abort
           /\ mCache' = r.cache
    /\ UNCHANGED <<walk, hist>>
    /\ UNCHANGED <<mPackageRoots, mPackageRootPaths, stack, heap, parseLog,
                   ret, returned, pathQuery>>

-----------------------------------------------------------------------------
(* Coordinator::forEachAST *)

\* the values a callback returns: OK, or an error
Statuses == {"OK", "ERR"}

\* a variant of StopOnError, below, that keeps going
StopNever(err) == FALSE

\* line 240: if (err != OK) return err
StopOnError(err) == err # "OK"

\* a client calls forEachAST(cb): the loop starts at index 0
ForEachAST ==
    /\ ~aborted
    /\ stack = <<>>
    /\ walk.pc # "loop"
    /\ walk' = [NoWalk EXCEPT !.pc = "loop"]
    /\ UNCHANGED <<mPackageRoots, mPackageRootPaths, mCache, stack, heap,
                   parseLog, ret, returned, aborted, pathQuery, hist>>

\* one turn of the loop of lines 229-243, or the return of line 245; err is
\* what the callback returns if this turn calls it
ForEachStep(err) ==
    /\ ~aborted
    /\ walk.pc = "loop"
    /\ IF ~(walk.i < Len(mCache))
       THEN walk' = [walk EXCEPT !.pc = "done", !.result = "OK"]
       ELSE LET ast == valueAt(mCache, walk.i)
            IN  IF ast = NULL
                THEN walk' = [walk EXCEPT !.i = @ + 1]
                ELSE LET called == [walk EXCEPT !.visited = Append(@, Obj(ast)),
                                                !.errs = Append(@, err)]
                     IN  IF StopOnError(err)
                         THEN walk' = [called EXCEPT !.pc = "done", !.result = err]
                         ELSE walk' = [called EXCEPT !.i = @ + 1]
    /\ UNCHANGED <<mPackageRoots, mPackageRootPaths, mCache, stack, heap,
                   parseLog, ret, returned, aborted, pathQuery, hist>>

-----------------------------------------------------------------------------
(* The resolver: one Coordinator, its clients and the parser *)

NoQuery == [fqName |-> NoName, abort |-> FALSE, path |-> <<>>]

Init ==
    /\ mPackageRoots = << <<"a">> >>
    /\ mPackageRootPaths = << <<"r">> >>
    /\ mCache = <<>>
    /\ stack = <<>>
    /\ heap = {}
    /\ parseLog = [fq \in FQNames |-> <<>>]
    /\ ret = NoRet
    /\ returned = [fq \in FQNames |-> {}]
    /\ aborted = FALSE
    /\ pathQuery = NoQuery
    /\ walk = NoWalk
    /\ hist = HistoryOff

Next ==
    \/ \E fq \in FQNames : Resolve(fq)
    \/ ImportTypes
    \/ CallParseFile
    \/ \E fq \in FQNames : ParserImport(fq)
    \/ ParseFileFails
    \/ \E c \in FileContents : ParseFileOK(c)
    \/ ValidateAndReturn
    \/ \E fq \in LookupNames : LookupType(fq)

Spec == Init /\ [][Next]_vars

\* the steps of the running parse activations: the program is sequential and
\* synchronous, so a started call keeps executing, and parseFile returns
Run ==
    \/ ImportTypes
    \/ CallParseFile
    \/ ParseFileFails
    \/ \E c \in FileContents : ParseFileOK(c)
    \/ ValidateAndReturn

FairSpec == Spec /\ WF_vars(Run)

\* the resolver with its clients also calling forEachAST, and with the
\* order of the insertions into the cache kept
WalkInit ==
    /\ mPackageRoots = << <<"a">> >>
    /\ mPackageRootPaths = << <<"r">> >>
    /\ mCache = <<>>
    /\ stack = <<>>
    /\ heap = {}
    /\ parseLog = [fq \in FQNames |-> <<>>]
    /\ ret = NoRet
    /\ returned = [fq \in FQNames |-> {}]
    /\ aborted = FALSE
    /\ pathQuery = NoQuery
    /\ walk = NoWalk
    /\ hist = HistoryOfOrder

WalkNext ==
    \/ Next
    \/ ForEachAST
    \/ \E err \in Statuses : ForEachStep(err)

WalkSpec == WalkInit /\ [][WalkNext]_vars

\* the resolver with the requests that found an identifier in progress kept
CycleInit ==
    /\ mPackageRoots = << <<"a">> >>
    /\ mPackageRootPaths = << <<"r">> >>
    /\ mCache = <<>>
    /\ stack = <<>>
    /\ heap = {}
    /\ parseLog = [fq \in FQNames |-> <<>>]
    /\ ret = NoRet
    /\ returned = [fq \in FQNames |-> {}]
    /\ aborted = FALSE
    /\ pathQuery = NoQuery
    /\ walk = NoWalk
    /\ hist = HistoryOfCycles

CycleSpec == CycleInit /\ [][Next]_vars

-----------------------------------------------------------------------------
(* Path resolution on its own: a Coordinator constructed with any registry  *)
(* of the model, asked for the file path of any identifier                  *)

PkgNfc   == <<"a", ".", "h", ".", "n", "f">>
PkgDeep  == <<"a", ".", "h", ".", "n", "f", ".", "x", "y">>
PkgOther == <<"b", ".", "h", ".", "n", "f">>
\* a package whose last segment is one character, and one that is no longer
\* than a registered prefix
PkgShort == <<"a", ".", "h", ".", "n">>
PkgBare  == <<"a", ".", "h">>

\* registered package prefixes: dot-terminated, not dot-terminated, and
\* prefixes that occur inside or at the end of a package
Prefixes == { <<"a", ".", "h", ".">>, <<"a", ".", "h">>, <<"h">>,
              <<"h", ".">>, <<"n", "f">> }

RootPaths == { <<"r">>, <<"r", "/">>, <<"d", "/", "r">> }

\* registries of at most this many entries
MaxRoots == 2

Registries ==
    UNION { [1 .. n -> Prefixes \X RootPaths] : n \in 1 .. MaxRoots }

PathNames ==
    { FQName(p, Ver1, n) : p \in {PkgNfc, PkgDeep, PkgOther, PkgShort, PkgBare},
                          n \in {IFoo, IFooE} }

PathInit ==
    /\ \E reg \in Registries :
          /\ mPackageRoots = [i \in DOMAIN reg |-> reg[i][1]]
          /\ mPackageRootPaths = [i \in DOMAIN reg |-> reg[i][2]]
    /\ mCache = <<>>
    /\ stack = <<>>
    /\ heap = {}
    /\ parseLog = [fq \in FQNames |-> <<>>]
    /\ ret = NoRet
    /\ returned = [fq \in FQNames |-> {}]
    /\ aborted = FALSE
    /\ pathQuery = NoQuery
    /\ walk = NoWalk
    /\ hist = HistoryOff

\* lines 47-50: the path parse builds for fq
ComputePath(fq) ==
    /\ ~aborted
    /\ LET fp == FilePath(mPackageRoots, mPackageRootPaths, fq)
       IN  /\ pathQuery' = [fqName |-> fq, abort |-> fp.abort, path |-> fp.path]
           /\ aborted' = fp.abort
    /\ UNCHANGED <<walk, hist>>
    /\ UNCHANGED <<mPackageRoots, mPackageRootPaths, mCache, stack, heap,
                   parseLog, ret, returned>>

PathNext == \E fq \in PathNames : ComputePath(fq)

PathSpec == PathInit /\ [][PathNext]_vars

-----------------------------------------------------------------------------
(* Cache states, as the specification names them *)

Entry(fq) == valueAt(mCache, indexOfKey(mCache, fq))

HasEntry(fq) == indexOfKey(mCache, fq) >= 0

Resolved(fq) == HasEntry(fq) /\ Entry(fq) # NULL

\* the placeholder of an activation that has not returned yet
InProgress(fq) == HasEntry(fq) /\ Entry(fq) = NULL /\ OnStack(fq)

\* the entry of an activation that returned NULL
Absent(fq) == HasEntry(fq) /\ Entry(fq) = NULL /\ ~OnStack(fq)

-----------------------------------------------------------------------------
(* Properties *)

\* C1: once parse(fq) has returned a module, every later parse(fq) returns
\* that same AST object (never NULL, never another object), and parseFile
\* has been invoked for fq exactly once, whatever calls came in between.
C1_SameModuleNoReparse ==
    \A fq \in FQNames :
        returned[fq] # {} =>
            /\ Cardinality(returned[fq]) = 1
            /\ (ret.op = "parse" /\ ret.fqName = fq) => Obj(ret.ast) \in returned[fq]
            /\ Len(parseLog[fq]) = 1

\* C1 witness: a repeated request got the module from the cache, with
\* another module resolved as well.
C1_Witness ==
    /\ ret.op = "parse" /\ ret.err = "cached" /\ ret.ast # NULL
    /\ returned[ret.fqName] = {Obj(ret.ast)}
    /\ stack = <<>>
    /\ Cardinality({ fq \in FQNames : Resolved(fq) }) >= 2

\* C2: parseFile is invoked at most once per identifier, in any run.
C2_ParsedAtMostOnce ==
    \A fq \in FQNames : Len(parseLog[fq]) <= 1

\* C2 witness: an identifier whose resolution failed was requested again
\* and answered from the cache.
C2_Witness ==
    /\ ret.op = "parse" /\ ret.err = "cached" /\ ret.ast = NULL
    /\ Absent(ret.fqName)
    /\ Len(parseLog[ret.fqName]) = 1

\* C3: resolution of cyclic imports terminates.  A request for an
\* identifier whose activation is still on the call stack never starts a
\* second activation, so the stack holds each identifier at most once and is
\* never deeper than the number of identifiers requested so far; and every
\* started resolution returns (or the process aborts).
C3_CyclesTerminate ==
    /\ [](/\ \A i, j \in 1 .. Len(stack) :
                stack[i].fqName = stack[j].fqName => i = j
          /\ Len(stack) <= Len(mCache))
    /\ (stack # <<>>) ~> (stack = <<>> \/ aborted)

\* C3 witness: a cycle was met.  The file of one identifier imported another
\* identifier whose file imported the first one back, and that nested
\* request returned NULL at once while the first is still on the stack.
C3_Witness ==
    /\ Len(stack) >= 2
    /\ ret.op = "parse" /\ ret.err = "cached" /\ ret.ast = NULL
    /\ stack[1].fqName = ret.fqName
    /\ stack[1].pc = "parsing"
    /\ Top.pc = "parsing" /\ Top.imports >= 1

\* C4: a request that finds an entry can tell an in-progress entry from a
\* failed one: the value parse returns for an identifier still being
\* resolved differs from the value it returns for one whose resolution failed.
C4_InProgressDistinctFromAbsent ==
    \A a, b \in FQNames :
        (InProgress(a) /\ Absent(b)) => Entry(a) # Entry(b)

\* C5: after parse(fq) fails in parseFile or in validation it has returned
\* NULL, the cache holds a NULL entry for fq, the AST built for fq is not
\* allocated any more, and the entry of a failed identifier never becomes
\* Resolved.
C5_FailureLeavesAbsent ==
    /\ []((ret.op = "parse" /\ ret.err \notin {"cached", "OK"}) =>
            /\ ret.ast = NULL
            /\ Absent(ret.fqName)
            /\ { o \in heap : o.key = ret.fqName } = {})
    /\ [][\A fq \in FQNames : Absent(fq) => Absent(fq)']_vars

\* C5 witness: a resolution failed in validation.
C5_Witness ==
    /\ ret.op = "parse" /\ ret.err = "InterfaceNameMismatch"
    /\ Absent(ret.fqName)

\* the outcome C6 states for a parsed module m requested as fq
C6_Expected(m, fq) ==
    IF m.package # fq.package \/ m.version # fq.version THEN "PackageMismatch"
    ELSE IF m.iface # <<>> /\ fq.name = TypesStr THEN "UnexpectedInterface"
    ELSE IF m.iface # <<>> /\ m.iface # fq.name THEN "InterfaceNameMismatch"
    ELSE IF m.iface = <<>> /\ fq.name # TypesStr THEN "ExpectedInterface"
    ELSE "OK"

\* C6: when the file of an uncached identifier fq parsed, parse(fq) returns
\* the module exactly when its package and version equal fq's and either it
\* declares an interface named fq.name and fq.name is not "types", or it
\* declares no interface and fq.name is "types"; otherwise it returns NULL
\* with the diagnostic of the first condition that fails.
C6_SucceedsExactlyWhenIdentityMatches ==
    [][(stack # <<>> /\ Top.pc = "validate" /\ stack' = Pop) =>
         LET m == Top.ast
             fq == Top.fqName
             ok == /\ m.package = fq.package
                   /\ m.version = fq.version
                   /\ \/ m.iface # <<>> /\ fq.name # TypesStr /\ m.iface = fq.name
                      \/ m.iface = <<>> /\ fq.name = TypesStr
         IN  /\ ret'.op = "parse" /\ ret'.fqName = fq
             /\ ok <=> (ret'.ast = m /\ m # NULL)
             /\ ~ok <=> ret'.ast = NULL
             /\ ret'.err = C6_Expected(m, fq)
             /\ ok <=> ret'.err = "OK"]_vars

\* C6 witness: a types module that declares an interface was rejected.
C6_Witness ==
    /\ ret.op = "parse" /\ ret.err = "UnexpectedInterface"
    /\ ret.fqName.name = TypesStr

\* C7: lookupType never triggers parsing and never changes the cache, and
\* for an identifier neither of whose modules (its top-level sibling, its
\* package's types) was ever resolved it returns NULL (NotFound).
C7_LookupReadsOnly ==
    [][\A fq \in LookupNames :
         LookupType(fq) =>
            /\ mCache' = mCache
            /\ parseLog' = parseLog
            /\ (/\ ~Resolved(FQName(fq.package, fq.version, TopType(fq.name)))
                /\ ~Resolved(FQName(fq.package, fq.version, TypesStr)))
               => (~aborted' /\ lookupType(mCache, fq).type = NoType)]_vars

\* the result C8 states for lookupType(fq)
C8_Expected(fq) ==
    LET top == FQName(fq.package, fq.version, TopType(fq.name))
        types == FQName(fq.package, fq.version, TypesStr)
    IN  IF Resolved(top) /\ lookupTypeInternal(Entry(top), fq.name) # NoType
        THEN lookupTypeInternal(Entry(top), fq.name)
        ELSE IF Resolved(types) /\ lookupTypeInternal(Entry(types), fq.name) # NoType
        THEN lookupTypeInternal(Entry(types), fq.name)
        ELSE NoType

\* C8: in every cache state lookupType returns a type or NULL and never
\* aborts: when the top-level sibling is not Resolved (no entry, in progress
\* or failed) or does not know the name, the types module answers if it is
\* Resolved, and otherwise the result is NULL (NotFound).
C8_LookupFallsBackNeverAborts ==
    \A fq \in LookupNames :
        /\ ~lookupType(mCache, fq).abort
        /\ lookupType(mCache, fq).type = C8_Expected(fq)

\* every dot of s replaced by a slash
DotsToSlashes(s) == [i \in 1 .. Len(s) |-> IF s[i] = "." THEN "/" ELSE s[i]]

\* the path C9 states for fq under the registry entry (prefix, root): the
\* root ending in '/', a directory per segment of the package without the
\* dot-terminated prefix (removed where the prefix occurs), the version
\* without '@', the name and ".hal"
C9_Expected(prefix, root, fq) ==
    LET p == find(fq.package, prefix, 0)
        nprefix == IF prefix[Len(prefix)] = "." THEN prefix ELSE prefix \o Dot
        nroot == IF root[Len(root)] = "/" THEN root ELSE root \o Slash
        rest == SubSeq(fq.package, 1, p)
                    \o SubSeq(fq.package, p + Len(nprefix) + 1, Len(fq.package))
    IN  nroot \o DotsToSlashes(rest) \o Slash
              \o SubSeq(fq.version, 2, Len(fq.version)) \o Slash
              \o fq.name \o HalExt

\* C9: whenever a path is built for an identifier, it is the path C9 states
\* for the registry entry findPackageRoot selects, for every prefix that
\* occurs in the package, wherever it occurs and whether or not it ends in '.'.
C9_PathForEveryMatchingPrefix ==
    (pathQuery # NoQuery /\ ~pathQuery.abort) =>
        LET it == findPackageRootLoop(mPackageRoots, pathQuery.fqName)
        IN  pathQuery.path = C9_Expected(mPackageRoots[it + 1],
                                         mPackageRootPaths[it + 1],
                                         pathQuery.fqName)

\* C10: the file parse reads for an identifier is named after the top-level
\* segment of its local name: the path handed to parseFile for "Foo.Inner"
\* is the path of "Foo".
C10_FileNamedAfterTopLevelName ==
    \A fq \in FQNames :
        \A i \in 1 .. Len(parseLog[fq]) :
            parseLog[fq][i] =
                FilePath(mPackageRoots, mPackageRootPaths,
                         FQName(fq.package, fq.version, TopType(fq.name))).path

\* t occurs somewhere in s
IsSubstring(t, s) ==
    \E p \in 0 .. Len(s) - Len(t) : SubSeq(s, p + 1, p + Len(t)) = t

\* s begins with t
StartsWith(s, t) == Len(t) <= Len(s) /\ SubSeq(s, 1, Len(t)) = t

\* the registry positions whose prefix is a substring of the package of fq
Matches(fq) ==
    { i \in 1 .. Len(mPackageRoots) : IsSubstring(mPackageRoots[i], fq.package) }

\* C11: for the identifier a path was asked for, if some registry entry's
\* prefix is a substring of the package then findPackageRoot does not fail and
\* selects the earliest registered such entry, and a path that is built
\* begins with the root path registered at that same position.
C11_FirstRegisteredMatchWins ==
    (pathQuery # NoQuery /\ Matches(pathQuery.fqName) # {}) =>
        LET first == CHOOSE i \in Matches(pathQuery.fqName) :
                        \A j \in Matches(pathQuery.fqName) : i <= j
            found == findPackageRoot(mPackageRoots, pathQuery.fqName)
            root == mPackageRootPaths[first]
        IN  /\ ~found.abort
            /\ found.it + 1 = first
            /\ ~pathQuery.abort =>
                  StartsWith(pathQuery.path,
                             IF root[Len(root)] = "/" THEN root ELSE root \o Slash)

\* two entries match the package, with different root paths, and the path
\* was built under the first one
C11_Witness ==
    /\ pathQuery # NoQuery
    /\ ~pathQuery.abort
    /\ Cardinality(Matches(pathQuery.fqName)) = 2
    /\ mPackageRootPaths[1] = <<"r">>
    /\ mPackageRootPaths[2] = <<"d", "/", "r">>
    /\ StartsWith(pathQuery.path, <<"r", "/">>)

\* C12: when no registry entry's prefix is a substring of the package of the
\* identifier a path was asked for, the failure is a value handed to the
\* caller: the process has not aborted.
C12_NoMatchingRootIsReturned ==
    (pathQuery # NoQuery /\ Matches(pathQuery.fqName) = {}) => ~aborted

\* the registered prefix with its terminating dot
Dotted(prefix) == IF prefix[Len(prefix)] = "." THEN prefix ELSE prefix \o Dot

\* C13: when the selected prefix leads the package of the identifier a path
\* was asked for, the process has not aborted, and a path is built exactly
\* when something remains of the package after the dot-terminated prefix,
\* however short the remainder's last segment is.
C13_MalformedOnlyWhenNothingRemains ==
    (pathQuery # NoQuery /\ Matches(pathQuery.fqName) # {}) =>
        LET fq == pathQuery.fqName
            first == CHOOSE i \in Matches(fq) : \A j \in Matches(fq) : i <= j
            prefix == Dotted(mPackageRoots[first])
            rest == SubSeq(fq.package, Len(prefix) + 1, Len(fq.package))
        IN  StartsWith(fq.package \o Dot, prefix) =>
                /\ ~aborted
                /\ (rest # <<>>) <=> (~pathQuery.abort /\ pathQuery.path # <<>>)

\* the types module of the package and version of fq
TypesSibling(fq) == FQName(fq.package, fq.version, TypesStr)

\* C14: an activation for an identifier whose name is not "types" has had the
\* types sibling requested (it has a cache entry) before it reaches the
\* parser, an activation for "types" never imports a sibling, and when an
\* activation for a name other than "types" returns, it returns the module
\* exactly when its own file parsed and passed the identity checks, whatever
\* became of the types sibling.
C14_TypesImportIsBestEffort ==
    /\ [](\A i \in 1 .. Len(stack) :
            /\ (stack[i].fqName.name # TypesStr /\ stack[i].pc # "types")
                  => HasEntry(TypesSibling(stack[i].fqName))
            /\ (stack[i].fqName.name = TypesStr) => stack[i].pc # "types")
    /\ [][(stack # <<>> /\ stack' = Pop /\ Top.fqName.name # TypesStr) =>
            /\ ret'.fqName = Top.fqName
            /\ (ret'.ast # NULL) <=>
                  /\ Top.pc = "validate"
                  /\ Top.ast.package = Top.fqName.package
                  /\ Top.ast.version = Top.fqName.version
                  /\ Top.ast.iface = Top.fqName.name
            /\ (ret'.ast # NULL) => ret'.ast = Top.ast]_vars

\* an interface module was resolved although its types sibling failed
C14_Witness ==
    /\ stack = <<>>
    /\ Resolved(FQName(Pkg1, Ver1, IFoo))
    /\ Absent(FQName(Pkg1, Ver1, TypesStr))
    /\ ret = ParseRet(FQName(Pkg1, Ver1, IFoo), Entry(FQName(Pkg1, Ver1, IFoo)), "OK")

\* C17: every running activation has the placeholder entry of its identifier
\* in the cache from its first step on, before the types import and before
\* the parser, so no request made inside it starts a second activation for
\* the same identifier: a new activation is only ever for an identifier
\* that had no entry.
C17_PlaceholderBeforeRecursion ==
    /\ [](\A i \in 1 .. Len(stack) :
            HasEntry(stack[i].fqName) /\ Entry(stack[i].fqName) = NULL)
    /\ [][Len(stack') > Len(stack) =>
            /\ ~HasEntry(stack'[Len(stack')].fqName)
            /\ ~OnStack(stack'[Len(stack')].fqName)]_vars

\* the types module, imported implicitly by IFoo before IFoo's parser ran,
\* has requested IFoo and found its placeholder
C17_Witness ==
    /\ Len(stack) = 2
    /\ stack[1].fqName = FQName(Pkg1, Ver1, IFoo) /\ stack[1].pc = "path"
    /\ stack[2].fqName = FQName(Pkg1, Ver1, TypesStr)
    /\ stack[2].pc = "parsing" /\ stack[2].imports = 1
    /\ ret = ParseRet(FQName(Pkg1, Ver1, IFoo), NULL, "cached")
    /\ parseLog[FQName(Pkg1, Ver1, IFoo)] = <<>>

\* C18: the cache holds at most one entry per identifier, and in every step
\* an entry that exists stays, an entry appears only as the placeholder of
\* the activation started for it by that step, a Resolved entry keeps its
\* module, an Absent entry stays Absent, and an InProgress entry stays
\* InProgress or becomes Resolved or Absent.
C18_EntryLifecycle ==
    /\ [](\A i, j \in 1 .. Len(mCache) : mCache[i].key = mCache[j].key => i = j)
    /\ [][\A fq \in FQNames :
            /\ HasEntry(fq) => HasEntry(fq)'
            /\ (~HasEntry(fq) /\ HasEntry(fq)') =>
                  /\ InProgress(fq)'
                  /\ Len(stack') = Len(stack) + 1
                  /\ stack'[Len(stack')].fqName = fq
            /\ Resolved(fq) => (Resolved(fq)' /\ Entry(fq)' = Entry(fq))
            /\ Absent(fq) => Absent(fq)'
            /\ InProgress(fq) => (InProgress(fq)' \/ Resolved(fq)' \/ Absent(fq)')]_vars

\* the cache holds a Resolved and an Absent entry, both requested again since
C18_Witness ==
    /\ stack = <<>>
    /\ \E fq \in FQNames : Resolved(fq) /\ returned[fq] # {} /\ Len(parseLog[fq]) = 1
    /\ \E fq \in FQNames : Absent(fq) /\ ret = ParseRet(fq, NULL, "cached")

\* C20: every entry of the cache that holds a module holds one with the
\* package and version of the entry's key, which declares an interface
\* exactly when the key's name is not "types", and then the interface is
\* named by the key's name.
C20_ResolvedEntriesMatchTheirKey ==
    \A i \in 1 .. Len(mCache) :
        LET key == mCache[i].key
            ast == mCache[i].value
        IN  ast # NULL =>
                /\ ast.package = key.package
                /\ ast.version = key.version
                /\ isInterface(ast) <=> key.name # TypesStr
                /\ isInterface(ast) => ast.iface = key.name

\* the cache holds a resolved interface module and a resolved types module
C20_Witness ==
    /\ \E i \in 1 .. Len(mCache) :
          mCache[i].value # NULL /\ mCache[i].key.name = IFoo
    /\ \E i \in 1 .. Len(mCache) :
          mCache[i].value # NULL /\ mCache[i].key.name = TypesStr
                                 /\ mCache[i].key.package = Pkg2

\* the modules of the Resolved entries of the cache
ResolvedModules ==
    { Obj(mCache[i].value) : i \in { j \in 1 .. Len(mCache) : mCache[j].value # NULL } }

\* C15: a forEachAST call has called the callback only on modules of
\* Resolved entries and on none twice; it has made no call after a call that
\* returned an error; when it has returned, it returned the error of the
\* failing call if there was one, and otherwise OK after calling the callback
\* on every Resolved module.
C15_ForEachVisitsResolvedAndShortCircuits ==
    walk.pc # "idle" =>
        /\ Len(walk.errs) = Len(walk.visited)
        /\ \A k \in 1 .. Len(walk.visited) : walk.visited[k] \in ResolvedModules
        /\ \A k, l \in 1 .. Len(walk.visited) :
              walk.visited[k] = walk.visited[l] => k = l
        /\ \A k \in 1 .. Len(walk.errs) - 1 : walk.errs[k] = "OK"
        /\ walk.pc = "loop" => \A k \in 1 .. Len(walk.errs) : walk.errs[k] = "OK"
        /\ walk.pc = "done" =>
              IF \E k \in 1 .. Len(walk.errs) : walk.errs[k] # "OK"
              THEN walk.result = walk.errs[Len(walk.errs)]
              ELSE /\ walk.result = "OK"
                   /\ { walk.visited[k] : k \in 1 .. Len(walk.visited) }
                          = ResolvedModules

\* a call skipped a NULL entry, called the callback on the module after it,
\* got an error and returned it with another Resolved module unvisited
C15_Witness ==
    /\ walk.pc = "done" /\ walk.result = "ERR"
    /\ Len(mCache) >= 3
    /\ mCache[1].value = NULL
    /\ walk.visited = <<Obj(mCache[2].value)>>
    /\ Cardinality(ResolvedModules) >= 2

\* C16: a forEachAST call has called the callback on the Resolved modules in
\* the order in which their entries were inserted into the cache.
C16_ForEachInInsertionOrder ==
    walk.pc # "idle" =>
        LET order == SelectSeq(hist.inserted, Resolved)
        IN  \A k \in 1 .. Len(walk.visited) :
                walk.visited[k] = Obj(Entry(order[k]))

\* C19: when the activation of an identifier that a nested request has found
\* in progress ends with its own file parsed and validated, the entry
\* becomes Resolved with that module and the activation returns it; and
\* while that identifier is the last to have returned so, every parse of it
\* has returned that one module and lookupType finds the module's types.
C19_BackEdgeDoesNotRecordFailure ==
    /\ [][\A A \in FQNames :
            (/\ stack # <<>>
             /\ Top.fqName = A
             /\ A \in hist.observed
             /\ Top.pc = "validate"
             /\ Validate(Top.ast, A) = "OK"
             /\ stack' = Pop)
            => /\ Resolved(A)'
               /\ Entry(A)' = Top.ast
               /\ ret' = ParseRet(A, Top.ast, "OK")]_vars
    /\ [](\A A \in FQNames :
            (hist.cycled = A /\ Resolved(A)) =>
                /\ returned[A] = {Obj(Entry(A))}
                /\ (ret.op = "parse" /\ ret.fqName = A) => ret.ast = Entry(A)
                /\ \A fq \in LookupNames :
                      LET r == lookupType(mCache, fq)
                          t == lookupTypeInternal(Entry(A), fq.name)
                      IN  (fq.package = A.package /\ fq.version = A.version) =>
                            /\ A.name = TopType(fq.name) =>
                                  (~r.abort /\ (t # NoType => r.type = t))
                            /\ (A.name = TypesStr /\ ~r.abort /\ t # NoType) =>
                                  r.type # NoType)

\* IFoo was requested by its types module while in progress, resolved, was
\* requested again and returned from the cache, and lookupType finds its type
C19_Witness ==
    LET A == FQName(Pkg1, Ver1, IFoo)
    IN  /\ stack = <<>>
        /\ hist.cycled = A
        /\ Resolved(A)
        /\ ret = ParseRet(A, Entry(A), "cached")
        /\ lookupType(mCache, FQName(Pkg1, Ver1, IFooE)).type.owner = A

=============================================================================
